---- MODULE Spec2Model ----
(***************************************************************************)
(* Per-connection protocol state machine of the EdgeDB client              *)
(* (edgedb-client/src/client.rs): Connection, Sequence, Writer, the        *)
(* parameterised-query exchange and the verbs built on it.                 *)
(*                                                                         *)
(* One step of the model is the code a task runs between two suspension    *)
(* points (an .await on a network read or write).  The outcome of every    *)
(* read and write is chosen by the environment: the server may send any    *)
(* message, the transport may fail at any point.                           *)
(*                                                                         *)
(* Reader (message, wait_ready, consume_ready) and QueryResponse (the row  *)
(* stream) live in reader.rs; they are modelled from sections 4.A and 4.E  *)
(* of the specification.                                                   *)
(*                                                                         *)
(* Rust's exclusive borrow of the connection serialises the verb calls of  *)
(* one connection.  The model does not rely on it: several callers may     *)
(* call verbs at any moment, so that the runtime mechanism (the dirty flag *)
(* checked by start_sequence) is what the properties rest on.              *)
(***************************************************************************)
EXTENDS Naturals, Sequences, FiniteSets

\* ------------------------------------------------------------------ bounds
NumCallers == 2     \* tasks that may call verbs of the connection
MaxChunks == 2      \* rows carried by one Data message
MaxRows == 3        \* rows a server sends within one exchange

Callers == 1..NumCallers

\* ------------------------------------------------------------------ vocabulary
TransactionStates == {"NotInTransaction", "InTransaction", "InFailedTransaction"}

StreamVerbs == {"query", "query_json", "query_json_els"}
RowVerbs == {"query_row", "query_row_opt"}
Verbs == {"execute", "execute_args", "terminate"} \cup StreamVerbs \cup RowVerbs

\* Server messages the reader can yield; LogMessage stands for every server
\* message the core gives no meaning to.
PlainMessages ==
    {"PrepareComplete", "CommandDataDescription", "CommandComplete",
     "ErrorResponse", "LogMessage"}
ReadErrors == {"ClientConnectionEos", "ClientConnection", "ProtocolEncoding"}

Outcome(t, ts, n, dec) == [t |-> t, ts |-> ts, n |-> n, dec |-> dec]
\* A Data message carries n rows; dec tells how decoding them goes: every row
\* decodes, the first one does not, or a later one does not.
DataOutcomes ==
    {Outcome("Data", "-", n, dec) : n \in 1..MaxChunks, dec \in {"ok", "fail_first"}}
    \cup {Outcome("Data", "-", n, "fail_later") : n \in 2..MaxChunks}
OtherOutcomes ==
    {Outcome(t, "-", 0, "-") : t \in PlainMessages \cup ReadErrors}
    \cup {Outcome("ReadyForCommand", ts, 0, "-") : ts \in TransactionStates}
\* Outcomes of one Reader::message call where the rows of a Data message are
\* not looked at.
ReadOutcomes == OtherOutcomes \cup {Outcome("Data", "-", 0, "-")}
\* No message: the step read nothing.
NoMsg == Outcome("none", "-", 0, "-")
\* Outcomes of one Reader::message call of the row stream.
StreamOutcomes == OtherOutcomes \cup DataOutcomes

IsError(m) == m.t \in ReadErrors

\* Outcomes of one Writer::send_messages call on a batch: every message is
\* encoded and written; or encoding fails after k messages were encoded; or
\* write_all fails after k messages reached the stream (a torn message counts
\* as not written).
WriteOutcomes(batch) ==
    {[res |-> "Ok", k |-> Len(batch)]}
    \cup {[res |-> r, k |-> k] : r \in {"ClientEncoding", "ClientConnection"},
                                k \in 0..(Len(batch) - 1)}

\* ------------------------------------------------------------------ state
VARIABLES
    dirty,              \* Connection.dirty
    transaction_state,  \* Connection.transaction_state
    seq,                \* seq[c]: the Sequence held by caller c
    pc,                 \* pc[c]: the suspension point caller c is at
    verb,               \* verb[c]: the verb caller c is running
    after,              \* after[c]: what the wait for ReadyForCommand follows
    stage,              \* stage[c]: which next() of the row verb is running
    qr,                 \* qr[c]: the QueryResponse held by caller c
    rows,               \* rows[c]: rows received in the current exchange
    desc,               \* desc[c]: the output descriptor _query returned to c
    output,             \* client messages written in the current exchange
    outbuf,             \* Connection.output_buf, the scratch buffer of the Writer
    ev,                 \* what the last step did (read outcome, return value)
    last_ready,         \* state carried by the last ReadyForCommand received
    errObserved,        \* a transport/protocol fault seen since the last end_clean
    droppedUnclean,     \* an active Sequence was dropped since the last end_clean
    passiveRead,        \* a passive_wait read completed
    end_cleans          \* end_clean calls so far on the Sequence the last step
                        \* called end_clean on; 0 when it called it on none

vars == <<dirty, transaction_state, seq, pc, verb, after, stage, qr, rows, desc,
          output, outbuf, ev, last_ready, errObserved, droppedUnclean, passiveRead,
          end_cleans>>

NoSeq == [exists |-> FALSE, active |-> FALSE]
NoStream == [open |-> FALSE, buffer |-> 0, error |-> "none", complete |-> FALSE]

\* An event: caller c, running v, at suspension point `at`, read msg and
\* returned ret; sent and k are the messages written and the rows received in
\* the exchange so far.
Event(c, v, at, msg, ret, sent, k) ==
    [caller |-> c, verb |-> v, at |-> at, msg |-> msg, ret |-> ret,
     sent |-> sent, rows |-> k]

Init ==
    /\ dirty = FALSE
    /\ transaction_state = "NotInTransaction"
    /\ seq = [c \in Callers |-> NoSeq]
    /\ pc = [c \in Callers |-> "idle"]
    /\ verb = [c \in Callers |-> "none"]
    /\ after = [c \in Callers |-> "none"]
    /\ stage = [c \in Callers |-> 0]
    /\ qr = [c \in Callers |-> NoStream]
    /\ rows = [c \in Callers |-> 0]
    /\ desc = [c \in Callers |-> "none"]
    /\ output = <<>>
    /\ outbuf = <<>>
    /\ ev = Event(0, "none", "init", "none", "none", <<>>, 0)
    /\ last_ready = "NotInTransaction"
    /\ errObserved = FALSE
    /\ droppedUnclean = FALSE
    /\ passiveRead = FALSE
    /\ end_cleans = 0

\* ------------------------------------------------------------------ Connection
is_consistent == ~dirty

get_transaction_state_const == "NotInTransaction"
get_transaction_state == transaction_state

start_sequence_noset(d) ==
    IF d THEN [ok |-> FALSE, dirty |-> d, active |-> FALSE]
         ELSE [ok |-> TRUE, dirty |-> d, active |-> TRUE]
start_sequence_nocheck(d) == [ok |-> TRUE, dirty |-> TRUE, active |-> TRUE]
\* start_sequence on a connection whose dirty flag is d.
start_sequence(d) ==
    IF d THEN [ok |-> FALSE, dirty |-> d, active |-> FALSE]
         ELSE [ok |-> TRUE, dirty |-> TRUE, active |-> TRUE]

end_clean_keeps_dirty(a, d) == [active |-> FALSE, dirty |-> d]
\* Sequence::end_clean on a Sequence with active = a, connection dirty = d.
end_clean(a, d) == [active |-> FALSE, dirty |-> FALSE]

\* ------------------------------------------------------------------ Writer
send_messages_no_truncate(buf, out, batch, w) ==
    LET encoded == buf \o SubSeq(batch, 1, IF w.res = "ClientEncoding"
                                           THEN w.k ELSE Len(batch))
    IN  [res |-> w.res,
         outbuf |-> encoded,
         output |-> CASE w.res = "Ok" -> out \o encoded
                      [] w.res = "ClientEncoding" -> out
                      [] OTHER -> out \o SubSeq(encoded, 1, w.k)]
\* Writer::send_messages on scratch buffer buf and stream content out: the
\* buffer is truncated, the messages are encoded into it one by one, and the
\* buffer is written with write_all once all of them are encoded.
send_messages(buf, out, batch, w) ==
    LET cleared == SubSeq(buf, 1, 0)
        encoded == cleared \o SubSeq(batch, 1, IF w.res = "ClientEncoding"
                                               THEN w.k ELSE Len(batch))
    IN  [res |-> w.res,
         outbuf |-> encoded,
         output |-> CASE w.res = "Ok" -> out \o encoded
                      [] w.res = "ClientEncoding" -> out
                      [] OTHER -> out \o SubSeq(encoded, 1, w.k)]

\* ------------------------------------------------------------------ Reader
\* Reader::message / consume_ready: a ReadyForCommand records the state it carries.
consume_ready(ts, m) == IF m.t = "ReadyForCommand" THEN m.ts ELSE ts

Recv(m) ==
    /\ transaction_state' = consume_ready(transaction_state, m)
    /\ last_ready' = IF m.t = "ReadyForCommand" THEN m.ts ELSE last_ready
NoRecv == UNCHANGED <<transaction_state, last_ready>>

\* ------------------------------------------------------------------ plumbing
\* Suspension points a verb reaches with the output descriptor in hand.
DescPcs == {"pexec_loop", "pexec_ready", "stream", "next_msg", "next_ready"}

LocalDesc(c, p, v, af, st, d) ==
    /\ pc' = [pc EXCEPT ![c] = p]
    /\ verb' = [verb EXCEPT ![c] = v]
    /\ after' = [after EXCEPT ![c] = af]
    /\ stage' = [stage EXCEPT ![c] = st]
    /\ desc' = [desc EXCEPT ![c] = d]

Local(c, p, v, af, st) ==
    LocalDesc(c, p, v, af, st, IF p \in DescPcs THEN desc[c] ELSE "none")

\* The Sequence of c stays as it is; fault tells whether the step saw a fault.
KeepSeq(c, fault) ==
    /\ UNCHANGED <<dirty, seq, droppedUnclean>>
    /\ end_cleans' = 0
    /\ errObserved' = (errObserved \/ fault)

DropSeq_clears_dirty(c, fault) ==
    /\ seq' = [seq EXCEPT ![c] = NoSeq]
    /\ dirty' = FALSE
    /\ droppedUnclean' = (droppedUnclean \/ seq[c].active)
    /\ errObserved' = (errObserved \/ fault)
    /\ end_cleans' = 0
\* The Sequence of c goes out of scope; a Sequence has no destructor, so the
\* dirty flag keeps the value it has.
DropSeq(c, fault) ==
    /\ seq' = [seq EXCEPT ![c] = NoSeq]
    /\ dirty' = dirty
    /\ droppedUnclean' = (droppedUnclean \/ seq[c].active)
    /\ errObserved' = (errObserved \/ fault)
    /\ end_cleans' = 0

\* end_clean on the Sequence of c; it stays in scope when keep is TRUE.
EndClean(c, keep) ==
    LET e == end_clean(seq[c].active, dirty) IN
    /\ seq' = [seq EXCEPT ![c] = IF keep THEN [exists |-> TRUE, active |-> e.active]
                                         ELSE NoSeq]
    /\ dirty' = e.dirty
    \* only end_clean clears `active`: a Sequence found inactive was ended before
    /\ end_cleans' = IF seq[c].active THEN 1 ELSE 2
    /\ droppedUnclean' = FALSE
    /\ errObserved' = FALSE
    /\ passiveRead' = FALSE

\* The operation an event of caller c belongs to: the verb, or an operation of
\* the row stream the verb handed out.
StreamPcs == {"stream", "next_msg", "next_ready"}
EvVerb(c) ==
    IF verb[c] \in StreamVerbs /\ pc[c] \in StreamPcs
    THEN IF stage[c] = 3 THEN "skip_remaining" ELSE "next"
    ELSE verb[c]

\* terminate takes the connection by value: the connection is gone when
\* terminate returns, and nothing can be done with it any more.
RetPc(c) == IF verb[c] = "terminate" THEN "closed" ELSE "idle"
ConnOpen == \A c \in Callers : pc[c] # "closed"
\* A verb may be called while another caller is at work with an active
\* Sequence, which is the overlap start_sequence has to turn down; the other
\* overlaps (with passive_wait, with the holder of a finished row stream) are
\* left to the borrow rules.
MayCall(c) == \A o \in Callers \ {c} : pc[o] = "idle" \/ seq[o].active
AllIdle == \A c \in Callers : pc[c] = "idle"

\* The verb of c returns ret to its caller with its Sequence still active,
\* having written out in the exchange.
ReturnDirtySent(c, m, ret, fault, out) ==
    /\ Local(c, RetPc(c), "none", "none", 0)
    /\ DropSeq(c, fault)
    /\ qr' = [qr EXCEPT ![c] = NoStream]
    /\ rows' = [rows EXCEPT ![c] = 0]
    /\ output' = <<>>
    /\ ev' = Event(c, EvVerb(c), pc[c], m.t, ret, out, rows[c] + m.n)
    /\ UNCHANGED passiveRead

ReturnDirty(c, m, ret, fault) == ReturnDirtySent(c, m, ret, fault, output)

\* The verb of c calls end_clean and returns ret.
ReturnClean(c, m, ret) ==
    /\ Local(c, "idle", "none", "none", 0)
    /\ EndClean(c, FALSE)
    /\ qr' = [qr EXCEPT ![c] = NoStream]
    /\ rows' = [rows EXCEPT ![c] = 0]
    /\ output' = <<>>
    /\ ev' = Event(c, EvVerb(c), pc[c], m.t, ret, output, rows[c] + m.n)

\* The verb of c goes on to suspension point p, having written out.
Goto(c, p, af, st, m, out) ==
    /\ Local(c, p, verb[c], af, st)
    /\ KeepSeq(c, FALSE)
    /\ output' = out
    /\ ev' = Event(c, EvVerb(c), pc[c], m.t, "none", out, rows[c])
    /\ UNCHANGED <<qr, rows, passiveRead>>

\* ------------------------------------------------------------------ verbs
\* A caller invokes verb v: the verb first calls start_sequence.
Call(c, v) ==
    /\ pc[c] = "idle"
    /\ ConnOpen
    /\ MayCall(c)
    /\ LET r == start_sequence(dirty) IN
       IF r.ok
       THEN /\ dirty' = r.dirty
            /\ seq' = [seq EXCEPT ![c] = [exists |-> TRUE, active |-> r.active]]
            /\ end_cleans' = 0
            /\ Local(c, "start", v, "none", 0)
            /\ rows' = [rows EXCEPT ![c] = 0]
            /\ output' = <<>>
            /\ ev' = Event(c, v, "idle", "none", "none", <<>>, 0)
            /\ UNCHANGED <<transaction_state, last_ready, qr, outbuf, errObserved,
                           droppedUnclean, passiveRead>>
       ELSE /\ dirty' = r.dirty
            /\ ev' = Event(c, v, "idle", "none", "ClientInconsistent", <<>>, 0)
            /\ IF v = "terminate"
               THEN pc' = [pc EXCEPT ![c] = "closed"]
               ELSE pc' = pc
            /\ UNCHANGED <<transaction_state, last_ready, seq, verb, after, stage,
                           qr, rows, desc, output, outbuf, errObserved, droppedUnclean,
                           passiveRead>>
            /\ end_cleans' = 0

FirstBatch(v) ==
    CASE v = "execute" -> <<"ExecuteScript">>
      [] v = "terminate" -> <<"Terminate">>
      [] OTHER -> <<"Prepare", "Flush">>

FirstRead(v) ==
    CASE v = "execute" -> "exec_loop"
      [] v = "terminate" -> "term_read"
      [] OTHER -> "prepare"

\* The first send_messages of a verb.
FirstSend(c) ==
    /\ pc[c] = "start"
    /\ ConnOpen
    /\ \E w \in WriteOutcomes(FirstBatch(verb[c])) :
         LET s == send_messages(outbuf, output, FirstBatch(verb[c]), w) IN
         /\ NoRecv
         /\ outbuf' = s.outbuf
         /\ IF s.res = "Ok"
            THEN Goto(c, FirstRead(verb[c]), "none", 0, NoMsg, s.output)
            ELSE ReturnDirtySent(c, NoMsg, s.res, TRUE, s.output)

\* Reader::wait_ready on one read outcome: ReadyForCommand ends the wait, a read
\* error fails it, every other message is passed over.
wait_ready(m) ==
    IF IsError(m) THEN "fail" ELSE IF m.t = "ReadyForCommand" THEN "ready" ELSE "skip"

\* Connection::execute, the receive loop.
ExecuteLoop(c) ==
    /\ pc[c] = "exec_loop"
    /\ ConnOpen
    /\ UNCHANGED outbuf
    /\ \E m \in ReadOutcomes :
         /\ Recv(m)
         /\ CASE IsError(m) -> ReturnDirty(c, m, m.t, TRUE)
              [] m.t = "CommandComplete" ->
                    Goto(c, "exec_ready", "complete", 0, m, output)
              [] m.t = "ErrorResponse" ->
                    Goto(c, "exec_ready", "error", 0, m, output)
              [] OTHER -> Goto(c, "exec_loop", "none", 0, m, output)

expect_ready_no_end_clean(c, m, okRet, errRet) ==
    CASE wait_ready(m) = "fail" -> ReturnDirty(c, m, m.t, TRUE)
      [] wait_ready(m) = "ready" ->
            ReturnDirty(c, m, IF after[c] = "complete" THEN okRet ELSE errRet, FALSE)
      [] OTHER -> Goto(c, pc[c], after[c], stage[c], m, output)
expect_ready_then_loops(c, m, okRet, errRet) ==
    CASE wait_ready(m) = "fail" -> ReturnDirty(c, m, m.t, TRUE)
      [] wait_ready(m) = "ready" ->
            /\ Local(c, pc[c], verb[c], after[c], stage[c])
            /\ EndClean(c, TRUE)
            /\ ev' = Event(c, EvVerb(c), pc[c], m.t, "none", output, rows[c])
            /\ UNCHANGED <<qr, rows, output>>
      [] OTHER -> Goto(c, pc[c], after[c], stage[c], m, output)
\* Sequence::expect_ready followed by the return of the verb: okRet after a
\* CommandComplete, errRet after an ErrorResponse.
expect_ready(c, m, okRet, errRet) ==
    CASE wait_ready(m) = "fail" -> ReturnDirty(c, m, m.t, TRUE)
      [] wait_ready(m) = "ready" ->
            ReturnClean(c, m, IF after[c] = "complete" THEN okRet ELSE errRet)
      [] OTHER -> Goto(c, pc[c], after[c], stage[c], m, output)

\* Connection::execute, waiting in expect_ready.
ExecuteReady(c) ==
    /\ pc[c] = "exec_ready"
    /\ ConnOpen
    /\ UNCHANGED outbuf
    /\ \E m \in ReadOutcomes :
         /\ Recv(m)
         /\ expect_ready(c, m, "Ok", "ErrorResponse")

terminate_result_any_error(m) == IF IsError(m) THEN "Ok" ELSE "Protocol"
\* The match of Connection::terminate on what it read after Terminate: the end
\* of the stream is success, another read error is returned as it is, a
\* message is a protocol error.
terminate_result(m) ==
    CASE m.t = "ClientConnectionEos" -> "Ok"
      [] IsError(m) /\ m.t # "ClientConnectionEos" -> m.t
      [] OTHER -> "Protocol"

\* Connection::terminate after Terminate was written.
TerminateRead(c) ==
    /\ pc[c] = "term_read"
    /\ ConnOpen
    /\ UNCHANGED outbuf
    /\ \E m \in ReadOutcomes :
         /\ Recv(m)
         /\ ReturnDirty(c, m, terminate_result(m), TRUE)

\* Connection::passive_wait is called: it starts its one-byte read.
PassiveWait(c) ==
    /\ AllIdle
    /\ Local(c, "pw_read", "passive_wait", "none", 0)
    /\ ev' = Event(c, "passive_wait", "idle", "none", "none", <<>>, 0)
    /\ UNCHANGED <<dirty, transaction_state, seq, qr, rows, output, outbuf,
                   last_ready, errObserved, droppedUnclean, passiveRead>>
    /\ end_cleans' = 0

passive_wait_clean(d) == d
\* The dirty flag after the read of passive_wait completed.
passive_wait(d) == TRUE

\* The read of passive_wait completes (a byte, zero bytes or an error); the
\* task then awaits pending() for ever.
PassiveRead(c) ==
    /\ pc[c] = "pw_read"
    /\ ConnOpen
    /\ UNCHANGED outbuf
    /\ \E r \in {"byte", "zero", "error"} :
         /\ dirty' = passive_wait(dirty)
         /\ passiveRead' = TRUE
         /\ errObserved' = TRUE
         /\ Local(c, "pw_pending", verb[c], "none", 0)
         /\ ev' = Event(c, verb[c], pc[c], r, "none", <<>>, 0)
         /\ UNCHANGED <<transaction_state, seq, qr, rows, output, last_ready,
                        droppedUnclean>>
         /\ end_cleans' = 0

\* The task of c is cancelled at a suspension point: the future of the verb is
\* dropped with everything it holds.
Cancel(c) ==
    /\ pc[c] \notin {"idle", "closed", "stream"}
    /\ ConnOpen
    /\ UNCHANGED outbuf
    /\ ev' = Event(c, EvVerb(c), pc[c], "none", "cancelled", output, rows[c])
    /\ UNCHANGED <<transaction_state, last_ready, passiveRead>>
    /\ IF verb[c] \in StreamVerbs /\ pc[c] \in StreamPcs /\ stage[c] = 0
       THEN \* next() borrows the stream: the stream outlives the cancelled pull
            /\ Local(c, "stream", verb[c], "none", 0)
            /\ KeepSeq(c, FALSE)
            /\ UNCHANGED <<qr, rows, output>>
       ELSE /\ Local(c, RetPc(c), "none", "none", 0)
            /\ DropSeq(c, FALSE)
            /\ qr' = [qr EXCEPT ![c] = NoStream]
            /\ rows' = [rows EXCEPT ![c] = 0]
            /\ output' = <<>>

\* ------------------------------------------------------------------ _query
\* The match of Sequence::_query on the first message of a phase that expects
\* the message `expected`.
query_match_skips(m, expected) ==
    CASE IsError(m) -> "fail"
      [] m.t = expected -> "proceed"
      [] m.t = "ErrorResponse" -> "err_sync"
      [] OTHER -> "skip"
query_match_lenient(m, expected) ==
    CASE IsError(m) -> "fail"
      [] m.t = "ErrorResponse" -> "err_sync"
      [] OTHER -> "proceed"
query_match(m, expected) ==
    CASE IsError(m) -> "fail"
      [] m.t = expected -> "proceed"
      [] m.t = "ErrorResponse" -> "err_sync"
      [] OTHER -> "out_of_order"

err_sync_no_sync(c, m, w) ==
    Goto(c, "err_sync", "error", 0, m, output) /\ UNCHANGED outbuf
\* Sequence::err_sync up to its suspension in expect_ready: Sync is written.
err_sync(c, m, w) ==
    LET s == send_messages(outbuf, output, <<"Sync">>, w) IN
    /\ outbuf' = s.outbuf
    /\ IF s.res = "Ok"
       THEN Goto(c, "err_sync", "error", 0, m, s.output)
       ELSE ReturnDirtySent(c, m, s.res, TRUE, s.output)

DescribeBatch == <<"DescribeStatement", "Flush">>
ExecuteBatch == <<"Execute", "Sync">>

\* Sequence::_query awaiting the answer to Prepare.
Prepare(c) ==
    /\ pc[c] = "prepare"
    /\ ConnOpen
    /\ \E m \in ReadOutcomes :
         /\ Recv(m)
         /\ CASE query_match(m, "PrepareComplete") = "fail" ->
                    ReturnDirty(c, m, m.t, TRUE) /\ UNCHANGED outbuf
              [] query_match(m, "PrepareComplete") = "proceed" ->
                    \E w \in WriteOutcomes(DescribeBatch) :
                    LET s == send_messages(outbuf, output, DescribeBatch, w)
                    IN  /\ outbuf' = s.outbuf
                        /\ IF s.res = "Ok"
                           THEN Goto(c, "describe", "none", 0, m, s.output)
                           ELSE ReturnDirtySent(c, m, s.res, TRUE, s.output)
              [] query_match(m, "PrepareComplete") = "err_sync" ->
                    \E w \in WriteOutcomes(<<"Sync">>) : err_sync(c, m, w)
              [] query_match(m, "PrepareComplete") = "skip" ->
                    Goto(c, pc[c], "none", 0, m, output) /\ UNCHANGED outbuf
              [] OTHER ->
                    ReturnDirty(c, m, "ProtocolOutOfOrder", TRUE) /\ UNCHANGED outbuf

\* Output descriptors a CommandDataDescription may carry: with or without a
\* root position.
Descriptors == {"root", "noroot"}

root_pos_some(d) == TRUE
\* OutputTypedesc::root_pos of descriptor d is Some(..).
root_pos(d) == d = "root"

\* What the verb does with the output descriptor d that _query returned; prep
\* tells whether R::prepare accepts it.
AfterQuery(c, m, d, prep, out) ==
    CASE verb[c] = "execute_args" \/ ~root_pos(d) ->
            \* seq._process_exec()
            /\ LocalDesc(c, "pexec_loop", verb[c], "none", 0, d)
            /\ KeepSeq(c, FALSE)
            /\ output' = out
            /\ ev' = Event(c, verb[c], pc[c], m.t, "none", out, rows[c])
            /\ UNCHANGED <<qr, rows, passiveRead>>
      [] verb[c] # "execute_args" /\ root_pos(d) /\ ~prep ->
            \* R::prepare rejects the descriptor
            /\ ReturnDirtySent(c, m, "DescriptorMismatch", TRUE, out)
      [] verb[c] \in StreamVerbs /\ root_pos(d) /\ prep ->
            \* seq.response(state): the row stream is handed to the caller
            /\ LocalDesc(c, "stream", verb[c], "none", 0, d)
            /\ KeepSeq(c, FALSE)
            /\ output' = out
            /\ qr' = [qr EXCEPT ![c] = [NoStream EXCEPT !.open = TRUE]]
            /\ ev' = Event(c, verb[c], pc[c], m.t, "Ok", out, rows[c])
            /\ UNCHANGED <<rows, passiveRead>>
      [] verb[c] \in RowVerbs /\ root_pos(d) /\ prep ->
            \* the row verb calls next() on the fresh stream
            /\ LocalDesc(c, "next_msg", verb[c], "none", 1, d)
            /\ KeepSeq(c, FALSE)
            /\ output' = out
            /\ qr' = [qr EXCEPT ![c] = [NoStream EXCEPT !.open = TRUE]]
            /\ ev' = Event(c, verb[c], pc[c], m.t, "none", out, rows[c])
            /\ UNCHANGED <<rows, passiveRead>>

arguments_encode_err_clean(c, m) == ReturnClean(c, m, "ClientEncoding")
\* arguments.encode(..)? fails: the error leaves _query and the verb.
arguments_encode_err(c, m) == ReturnDirty(c, m, "ClientEncoding", TRUE)

\* Sequence::_query awaiting the answer to DescribeStatement, then decoding the
\* descriptors, encoding the arguments and writing Execute + Sync.
Describe(c) ==
    /\ pc[c] = "describe"
    /\ ConnOpen
    /\ \E m \in ReadOutcomes :
         /\ Recv(m)
         /\ CASE query_match(m, "CommandDataDescription") = "fail" ->
                    ReturnDirty(c, m, m.t, TRUE) /\ UNCHANGED outbuf
              [] query_match(m, "CommandDataDescription") = "proceed" ->
                    \/ \* bad descriptor
                       ReturnDirty(c, m, "ProtocolEncoding", TRUE) /\ UNCHANGED outbuf
                    \/ arguments_encode_err(c, m) /\ UNCHANGED outbuf
                    \/ \E w \in WriteOutcomes(ExecuteBatch) :
                         LET s == send_messages(outbuf, output, ExecuteBatch, w)
                         IN  /\ outbuf' = s.outbuf
                             /\ IF s.res = "Ok"
                                THEN \E d \in Descriptors, prep \in BOOLEAN :
                                        AfterQuery(c, m, d, prep, s.output)
                                ELSE ReturnDirtySent(c, m, s.res, TRUE, s.output)
              [] query_match(m, "CommandDataDescription") = "err_sync" ->
                    \E w \in WriteOutcomes(<<"Sync">>) : err_sync(c, m, w)
              [] query_match(m, "CommandDataDescription") = "skip" ->
                    Goto(c, pc[c], "none", 0, m, output) /\ UNCHANGED outbuf
              [] OTHER ->
                    ReturnDirty(c, m, "ProtocolOutOfOrder", TRUE) /\ UNCHANGED outbuf

\* Sequence::err_sync waiting in expect_ready under its deadline.
ErrSyncReady(c) ==
    /\ pc[c] = "err_sync"
    /\ ConnOpen
    /\ UNCHANGED outbuf
    /\ \E m \in ReadOutcomes :
         /\ Recv(m)
         /\ expect_ready(c, m, "ErrorResponse", "ErrorResponse")

ErrSyncTimeout_never(c) ==
    /\ pc[c] = "err_sync"
    /\ ConnOpen
    /\ FALSE
    /\ UNCHANGED vars
ErrSyncTimeout_ends_clean(c) ==
    /\ pc[c] = "err_sync"
    /\ ConnOpen
    /\ UNCHANGED outbuf
    /\ ReturnClean(c, NoMsg, "ClientConnectionTimeout")
    /\ NoRecv
\* The deadline of err_sync expires before ReadyForCommand arrives.
ErrSyncTimeout(c) ==
    /\ pc[c] = "err_sync"
    /\ ConnOpen
    /\ UNCHANGED outbuf
    /\ ReturnDirty(c, NoMsg, "ClientConnectionTimeout", TRUE)
    /\ NoRecv

\* Sequence::_process_exec, the receive loop.
ProcessExec(c) ==
    /\ pc[c] = "pexec_loop"
    /\ ConnOpen
    /\ UNCHANGED outbuf
    /\ \E m \in ReadOutcomes :
         /\ Recv(m)
         /\ CASE IsError(m) -> ReturnDirty(c, m, m.t, TRUE)
              [] m.t = "CommandComplete" ->
                    Goto(c, "pexec_ready", "complete", 0, m, output)
              [] m.t = "ErrorResponse" ->
                    Goto(c, "pexec_ready", "error", 0, m, output)
              [] OTHER -> Goto(c, "pexec_loop", "none", 0, m, output)

\* Sequence::_process_exec in wait_ready, then end_clean; execute_args returns
\* the status, the row verbs turn it into NoResultExpected.
ProcessExecReady(c) ==
    /\ pc[c] = "pexec_ready"
    /\ ConnOpen
    /\ UNCHANGED outbuf
    /\ \E m \in ReadOutcomes :
         /\ Recv(m)
         /\ expect_ready(c, m,
                IF verb[c] = "execute_args" THEN "Ok" ELSE "NoResultExpected",
                "ErrorResponse")

\* ------------------------------------------------------------------ row stream
\* A result of one pull of the row stream: a row, the end, an error, or the
\* need to read a message; q is the stream state the pull leaves.
Pulled(res, err, q) == [res |-> res, err |-> err, q |-> q]
Terminal(q) == [q EXCEPT !.buffer = 0, !.error = "none", !.complete = TRUE]
\* skip_remaining decodes nothing: what the stream had buffered is let go.
Discarded(q) == [q EXCEPT !.buffer = 0, !.error = "none"]

poll_buffered_keeps_error(q) ==
    IF q.error # "none" THEN Pulled("Err", q.error, q)
    ELSE IF q.complete THEN Pulled("End", "none", q)
    ELSE IF q.buffer > 0 THEN Pulled("Row", "none", [q EXCEPT !.buffer = @ - 1])
    ELSE Pulled("Read", "none", q)
\* A pull as far as it goes without reading: a cached terminal error is
\* returned once, a complete stream returns the end, a buffered row is returned.
poll_buffered(q) ==
    IF q.error # "none" THEN Pulled("Err", q.error, Terminal(q))
    ELSE IF q.complete THEN Pulled("End", "none", q)
    ELSE IF q.buffer > 0 THEN Pulled("Row", "none", [q EXCEPT !.buffer = @ - 1])
    ELSE Pulled("Read", "none", q)

\* A pull that read message m, other than CommandComplete and ErrorResponse.
poll_message(q, m) ==
    CASE IsError(m) -> Pulled("Err", m.t, Terminal(q))
      [] m.t = "Data" /\ m.dec = "ok" ->
            Pulled("Row", "none", [q EXCEPT !.buffer = m.n - 1])
      [] m.t = "Data" /\ m.dec = "fail_first" ->
            Pulled("Err", "ProtocolEncoding", Terminal(q))
      [] m.t = "Data" /\ m.dec = "fail_later" ->
            Pulled("Row", "none", [q EXCEPT !.error = "ProtocolEncoding"])
      [] OTHER -> Pulled("Err", "ProtocolOutOfOrder", Terminal(q))

\* The stream of c goes on to suspension point p.
StreamGoto(c, p, af, st, m, q) ==
    /\ Local(c, p, verb[c], af, st)
    /\ KeepSeq(c, FALSE)
    /\ qr' = [qr EXCEPT ![c] = q]
    /\ rows' = [rows EXCEPT ![c] = @ + m.n]
    /\ ev' = Event(c, EvVerb(c), pc[c], m.t, "none", output, rows[c] + m.n)
    /\ UNCHANGED <<output, passiveRead>>

\* A pull made by the holder of the stream returns ret; the stream stays with
\* its holder.  ended: the pull called end_clean.
PullReturn(c, m, ret, q, ended) ==
    /\ Local(c, "stream", verb[c], "none", 0)
    /\ IF ended
       THEN EndClean(c, TRUE)
       ELSE KeepSeq(c, ret \notin {"Row", "End"}) /\ UNCHANGED passiveRead
    /\ qr' = [qr EXCEPT ![c] = q]
    /\ rows' = [rows EXCEPT ![c] = @ + m.n]
    /\ ev' = Event(c, "next", pc[c], m.t, ret, output, rows[c] + m.n)
    /\ UNCHANGED output

\* An error leaves a verb: the Sequence is dropped as it is.
FailWith(c, m, err, ended) ==
    IF ended THEN ReturnClean(c, m, err) ELSE ReturnDirty(c, m, err, TRUE)

ExtraRow_no_drain(c, m, q) == ReturnDirty(c, m, "Protocol", TRUE)
ExtraRow_drains(c, m, q) == StreamGoto(c, "next_msg", "none", 3, m, Discarded(q))
\* query_row and query_row_opt once the second next() yielded a row: query_row
\* calls skip_remaining before it fails, query_row_opt fails at once.
ExtraRow(c, m, q) ==
    IF verb[c] = "query_row"
    THEN StreamGoto(c, "next_msg", "none", 3, m, Discarded(q))
    ELSE ReturnDirty(c, m, "Protocol", TRUE)

\* query_row / query_row_opt on the result r of their second next().
query_row_second(c, m, r, ended) ==
    CASE r.res = "Err" -> FailWith(c, m, r.err, ended)
      [] r.res = "End" -> ReturnClean(c, m, "Ok")
      [] r.res = "Row" -> ExtraRow(c, m, r.q)
      [] OTHER -> StreamGoto(c, "next_msg", "none", 2, m, r.q)

\* query_row / query_row_opt on the result r of their first next(); with a row
\* in hand they call next() again.
query_row_first(c, m, r, ended) ==
    CASE r.res = "Err" -> FailWith(c, m, r.err, ended)
      [] r.res = "End" ->
            ReturnClean(c, m, IF verb[c] = "query_row" THEN "NoData" ELSE "None")
      [] OTHER -> query_row_second(c, m, poll_buffered(r.q), FALSE)

\* skip_remaining on the result r of a pull: the end ends it; query_row then
\* fails with the extra-row error.
skip_remaining(c, m, r, ended) ==
    CASE r.res = "Err" -> FailWith(c, m, r.err, ended)
      [] OTHER -> ReturnClean(c, m, IF verb[c] \in RowVerbs THEN "Protocol" ELSE "Ok")

\* The result r of a pull goes to whoever made the pull.
Deliver(c, m, r, ended) ==
    CASE stage[c] = 0 ->
            PullReturn(c, m, IF r.res = "Err" THEN r.err ELSE r.res, r.q, ended)
      [] stage[c] = 1 -> query_row_first(c, m, r, ended)
      [] stage[c] = 2 -> query_row_second(c, m, r, ended)
      [] OTHER -> skip_remaining(c, m, r, ended)

\* A pull (or skip_remaining) awaiting a message.
StreamMsg(c) ==
    /\ pc[c] = "next_msg"
    /\ ConnOpen
    /\ UNCHANGED outbuf
    /\ \E m \in StreamOutcomes :
         /\ m.t = "Data" => rows[c] + m.n <= MaxRows
         /\ stage[c] = 3 => m.dec \in {"-", "ok"}
         /\ Recv(m)
         /\ CASE m.t = "CommandComplete" ->
                    StreamGoto(c, "next_ready", "complete", stage[c], m, qr[c])
              [] m.t = "ErrorResponse" ->
                    StreamGoto(c, "next_ready", "error", stage[c], m, qr[c])
              [] m.t = "Data" /\ stage[c] = 3 ->
                    StreamGoto(c, "next_msg", "none", 3, m, qr[c])
              [] OTHER -> Deliver(c, m, poll_message(qr[c], m), FALSE)

\* A pull (or skip_remaining) in wait_ready after CommandComplete or
\* ErrorResponse; ReadyForCommand makes it call end_clean and mark completion.
StreamReady(c) ==
    /\ pc[c] = "next_ready"
    /\ ConnOpen
    /\ UNCHANGED outbuf
    /\ \E m \in ReadOutcomes :
         /\ Recv(m)
         /\ CASE wait_ready(m) = "fail" ->
                    Deliver(c, m, Pulled("Err", m.t, Terminal(qr[c])), FALSE)
              [] wait_ready(m) = "ready" /\ after[c] = "complete" ->
                    Deliver(c, m, Pulled("End", "none", Terminal(qr[c])), TRUE)
              [] wait_ready(m) = "ready" /\ after[c] # "complete" ->
                    Deliver(c, m, Pulled("Err", "ErrorResponse", Terminal(qr[c])), TRUE)
              [] OTHER -> StreamGoto(c, pc[c], after[c], stage[c], m, qr[c])

\* The holder of a row stream pulls.
StreamNext(c) ==
    /\ pc[c] = "stream"
    /\ ConnOpen
    /\ UNCHANGED outbuf
    /\ NoRecv
    /\ LET r == poll_buffered(qr[c]) IN
       IF r.res = "Read"
       THEN StreamGoto(c, "next_msg", "none", 0, NoMsg, qr[c])
       ELSE PullReturn(c, NoMsg, IF r.res = "Err" THEN r.err ELSE r.res, r.q, FALSE)

\* The holder of a row stream calls skip_remaining, which takes the stream.
StreamSkip(c) ==
    /\ pc[c] = "stream"
    /\ ConnOpen
    /\ UNCHANGED outbuf
    /\ NoRecv
    /\ IF qr[c].complete
       THEN /\ Local(c, "idle", "none", "none", 0)
            /\ DropSeq(c, FALSE)
            /\ qr' = [qr EXCEPT ![c] = NoStream]
            /\ rows' = [rows EXCEPT ![c] = 0]
            /\ output' = <<>>
            /\ ev' = Event(c, "skip_remaining", pc[c], "none", "Ok", output, rows[c])
            /\ UNCHANGED passiveRead
       ELSE /\ Local(c, "next_msg", verb[c], "none", 3)
            /\ KeepSeq(c, FALSE)
            /\ qr' = [qr EXCEPT ![c] = Discarded(@)]
            /\ ev' = Event(c, "skip_remaining", pc[c], "none", "none", output, rows[c])
            /\ UNCHANGED <<rows, output, passiveRead>>

\* The holder of a row stream drops it, and the Sequence in it.
DropStream(c) ==
    /\ pc[c] = "stream"
    /\ ConnOpen
    /\ UNCHANGED outbuf
    /\ NoRecv
    /\ Local(c, "idle", "none", "none", 0)
    /\ DropSeq(c, FALSE)
    /\ qr' = [qr EXCEPT ![c] = NoStream]
    /\ rows' = [rows EXCEPT ![c] = 0]
    /\ output' = <<>>
    /\ ev' = Event(c, "drop", pc[c], "none", "dropped", output, rows[c])
    /\ UNCHANGED passiveRead

Next ==
    \E c \in Callers :
        \/ \E v \in Verbs : Call(c, v)
        \/ FirstSend(c)
        \/ ExecuteLoop(c)
        \/ ExecuteReady(c)
        \/ TerminateRead(c)
        \/ Prepare(c)
        \/ Describe(c)
        \/ ErrSyncReady(c)
        \/ ErrSyncTimeout(c)
        \/ ProcessExec(c)
        \/ ProcessExecReady(c)
        \/ StreamMsg(c)
        \/ StreamReady(c)
        \/ StreamNext(c)
        \/ StreamSkip(c)
        \/ DropStream(c)
        \/ PassiveWait(c)
        \/ PassiveRead(c)
        \/ Cancel(c)

Spec == Init /\ [][Next]_vars

\* The task of caller c is polled and its writes and reads complete: a verb
\* that is not in a receive loop takes its next step.  In err_sync it is the
\* deadline that is sure to come.
TaskStep(c) ==
    FirstSend(c) \/ Prepare(c) \/ Describe(c) \/ ErrSyncTimeout(c)
TaskRuns(c) == WF_vars(TaskStep(c))

\* The server answers: a receive loop of execute or _process_exec, which
\* passes over any number of messages, in the end reads one that ends it
\* (CommandComplete or ErrorResponse, then ReadyForCommand) or fails.
AnswerStep(c) ==
    /\ ExecuteLoop(c) \/ ExecuteReady(c) \/ ProcessExec(c) \/ ProcessExecReady(c)
    /\ pc'[c] # pc[c]
ServerAnswers(c) == WF_vars(AnswerStep(c))

LiveSpec == Spec /\ \A c \in Callers : TaskRuns(c) /\ ServerAnswers(c)

\* ------------------------------------------------------------------ properties
ActiveSeqs == {c \in Callers : seq[c].active}
SeqLive == ActiveSeqs # {}

\* The step is a call of a verb by caller c.
CallStep(c) ==
    pc[c] = "idle" /\ ev'.caller = c /\ ev'.at = "idle" /\ ev'.verb \in Verbs

\* The last step was the return of a Connection verb.
VerbReturned ==
    ev.verb \in Verbs /\ ev.ret \notin {"none", "cancelled", "dropped"}
\* Results that are no transport, protocol or client fault.
Successes == {"Ok", "None"}
Excused == {"NoData", "NoResultExpected", "ErrorResponse"}
FaultReturned == VerbReturned /\ ev.ret \notin Successes \cup Excused

Range(f) == {f[i] : i \in DOMAIN f}

\* C1: start_sequence on a dirty connection fails with ClientInconsistent,
\* writes nothing and leaves dirty and the transaction state as they are; on a
\* clean connection it succeeds, sets dirty and returns an active Sequence.
C1_StartSequence ==
    [][\A c \in Callers :
          CallStep(c) =>
            IF dirty
            THEN /\ ev'.ret = "ClientInconsistent"
                 /\ output' = output
                 /\ dirty' = dirty
                 /\ transaction_state' = transaction_state
                 /\ seq'[c] = NoSeq
                 /\ pc'[c] \in {"idle", "closed"}
            ELSE /\ ev'.ret = "none"
                 /\ dirty'
                 /\ seq'[c] = [exists |-> TRUE, active |-> TRUE]
                 /\ pc'[c] = "start"]_vars

C1_Witness ==
    ev.at = "idle" /\ ev.verb \in Verbs /\ ev.ret = "ClientInconsistent" /\ dirty

\* C2: at most one Sequence is active at any moment, whatever the verbs and
\* their interleaving: a verb called while the Sequence of another caller is
\* active does not get one (it fails with ClientInconsistent).
C2_SingleSequence ==
    /\ Cardinality(ActiveSeqs) <= 1
    /\ (ev.at = "idle" /\ ev.verb \in Verbs /\ ev.ret = "none")
          => ActiveSeqs = {ev.caller}
    /\ (ev.at = "idle" /\ ev.verb \in Verbs /\ ActiveSeqs \ {ev.caller} # {})
          => ev.ret = "ClientInconsistent"

C2_Witness ==
    /\ ev.at = "idle" /\ ev.verb \in Verbs /\ ev.ret = "ClientInconsistent"
    /\ ActiveSeqs \ {ev.caller} # {}

\* C3 as stated: after a verb returned an error other than NoData,
\* NoResultExpected or a server ErrorResponse, is_consistent() is false.
C3_Original == FaultReturned => ~is_consistent

\* C3, amended: the same, except for the extra-row Protocol error of query_row,
\* which is returned after the response was drained and end_clean called, so
\* that is_consistent() is true after it.
C3_FaultLeavesDirty ==
    /\ (FaultReturned /\ ~(ev.verb = "query_row" /\ ev.ret = "Protocol"))
          => ~is_consistent
    /\ (VerbReturned /\ ev.verb = "query_row" /\ ev.ret = "Protocol")
          => is_consistent

C3_Witness ==
    FaultReturned /\ ev.ret = "ProtocolOutOfOrder" /\ ~is_consistent

\* C4 as stated: dirty holds exactly when a Sequence is live or a transport or
\* protocol error was observed since the last end_clean.
C4_Original == dirty <=> (SeqLive \/ errObserved)

\* C4, amended: dirty holds exactly when a Sequence is active, or, since the
\* last end_clean, an active Sequence was dropped (early return on an error,
\* cancellation, an undrained row stream dropped) or a passive_wait read
\* completed.
C4_DirtyIff == dirty <=> (SeqLive \/ droppedUnclean \/ passiveRead)

C4_Witness == dirty /\ ~SeqLive /\ droppedUnclean /\ ~errObserved

\* C5: once an active Sequence was dropped without end_clean, dirty stays true
\* for ever and every later call of a verb fails with ClientInconsistent.
C5_DirtyForEver ==
    [][/\ droppedUnclean' => dirty'
       /\ droppedUnclean =>
            /\ droppedUnclean'
            /\ \A c \in Callers :
                 CallStep(c) => (ev'.ret = "ClientInconsistent" /\ seq'[c] = NoSeq)]_vars

C5_Witness ==
    /\ droppedUnclean /\ ~SeqLive /\ dirty
    /\ ev.at = "idle" /\ ev.verb \in Verbs /\ ev.ret = "ClientInconsistent"

\* What is on the wire after err_sync wrote its Sync: the phases before the
\* error, then one Sync.
SyncOnly(out) ==
    out \in {<<"Prepare", "Flush", "Sync">>,
             <<"Prepare", "Flush", "DescribeStatement", "Flush", "Sync">>}

\* C6: an ErrorResponse to Prepare or to DescribeStatement makes the client
\* write one Sync and nothing after it, and wait for ReadyForCommand; when it
\* arrives the verb returns the server error and the connection is consistent,
\* so that start_sequence succeeds again.
C6_ErrSync ==
    /\ (ev.at \in {"prepare", "describe"} /\ ev.msg = "ErrorResponse" /\ ev.ret = "none")
          => (pc[ev.caller] = "err_sync" /\ SyncOnly(output))
    /\ \A c \in Callers : pc[c] = "err_sync" => SyncOnly(output)
    /\ (ev.at = "err_sync" /\ ev.msg = "ReadyForCommand")
          => /\ ev.ret = "ErrorResponse"
             /\ SyncOnly(ev.sent)
             /\ is_consistent
             /\ start_sequence(dirty).ok

C6_Witness ==
    /\ ev.at = "err_sync" /\ ev.msg = "ReadyForCommand" /\ ev.ret = "ErrorResponse"
    /\ ev.sent = <<"Prepare", "Flush", "Sync">>

ServerMessages == PlainMessages \cup {"ReadyForCommand", "Data"}
Awaited(at) == IF at = "prepare" THEN "PrepareComplete" ELSE "CommandDataDescription"

\* C7: a first message of the Prepare or Describe phase that is neither the
\* awaited one nor ErrorResponse makes the verb return ProtocolOutOfOrder with
\* no Sync written; the connection is dirty and start_sequence fails on it.
C7_OutOfOrder ==
    (/\ ev.at \in {"prepare", "describe"}
     /\ ev.msg \in ServerMessages \ {Awaited(ev.at), "ErrorResponse"})
    => /\ ev.ret = "ProtocolOutOfOrder"
       /\ "Sync" \notin Range(ev.sent)
       /\ ~is_consistent
       /\ ~start_sequence(dirty).ok
       /\ pc[ev.caller] = "idle"

C7_Witness ==
    /\ ev.at = "prepare" /\ ev.msg = "CommandComplete"
    /\ ev.ret = "ProtocolOutOfOrder" /\ dirty

C9_QueryRow ==
    (ev.verb = "query_row" /\ ev.ret \in {"Ok", "NoData", "Protocol"})
    => /\ ev.ret = "Ok" <=> ev.rows = 1
       /\ ev.ret = "NoData" <=> ev.rows = 0
       /\ ev.ret = "Protocol" <=> ev.rows >= 2
       /\ ev.at = "next_ready" /\ ev.msg = "ReadyForCommand"
       /\ is_consistent

C9_Witness ==
    /\ ev.verb = "query_row" /\ ev.ret = "Protocol" /\ ev.rows >= 2
    /\ ev.at = "next_ready" /\ ev.msg = "ReadyForCommand"

\* C10: query_row_opt returns None for no row and the row for one row, the
\* connection being consistent after both; on a second row it returns the
\* extra-row error at once, nothing more being read: its Sequence is dropped
\* active and the connection is dirty.
C10_QueryRowOpt ==
    (ev.verb = "query_row_opt" /\ ev.ret \in {"Ok", "None", "Protocol"})
    => /\ ev.ret = "None" <=> ev.rows = 0
       /\ ev.ret = "Ok" <=> ev.rows = 1
       /\ ev.ret = "Protocol" <=> ev.rows >= 2
       /\ ev.ret \in {"Ok", "None"} =>
            (ev.at = "next_ready" /\ ev.msg = "ReadyForCommand" /\ is_consistent)
       /\ ev.ret = "Protocol" =>
            (ev.at = "next_msg" /\ ev.msg = "Data" /\ ~is_consistent /\ droppedUnclean)

C10_Witness ==
    /\ ev.verb = "query_row_opt" /\ ev.ret = "Protocol" /\ ev.rows >= 2
    /\ ev.at = "next_msg" /\ dirty

\* The step is one of caller c running verb v: c moves on from the suspension
\* point it was at.
StepOf(c, v) == verb[c] = v /\ ev'.caller = c /\ ev'.at = pc[c]

\* C11: execute writes one ExecuteScript and nothing else; a message other than
\* CommandComplete and ErrorResponse is passed over, the exchange going on;
\* ReadyForCommand after CommandComplete makes it return the status, after
\* ErrorResponse the server error, the connection being consistent after both.
C11_Execute ==
    [][\A c \in Callers :
          StepOf(c, "execute") =>
            /\ (pc[c] = "start" /\ ev'.ret = "none")
                  => (output' = <<"ExecuteScript">> /\ pc'[c] = "exec_loop")
            /\ pc[c] \in {"exec_loop", "exec_ready"}
                  => (output = <<"ExecuteScript">> /\ ev'.sent = <<"ExecuteScript">>)
            /\ (pc[c] = "exec_loop" /\ ev'.msg \in {"CommandComplete", "ErrorResponse"})
                  => /\ pc'[c] = "exec_ready" /\ ev'.ret = "none"
                     /\ after'[c] = IF ev'.msg = "CommandComplete"
                                    THEN "complete" ELSE "error"
            /\ (pc[c] = "exec_loop"
                  /\ ev'.msg \in ServerMessages \ {"CommandComplete", "ErrorResponse"})
                  => /\ pc'[c] = "exec_loop" /\ ev'.ret = "none"
                     /\ seq'[c].active /\ output' = output
            /\ (pc[c] = "exec_ready" /\ ev'.msg = "ReadyForCommand")
                  => /\ ev'.ret = IF after[c] = "complete" THEN "Ok" ELSE "ErrorResponse"
                     /\ is_consistent'
                     /\ seq'[c] = NoSeq]_vars

C11_Witness ==
    /\ ev.verb = "execute" /\ ev.at = "exec_ready" /\ ev.msg = "ReadyForCommand"
    /\ ev.ret = "ErrorResponse" /\ ev.sent = <<"ExecuteScript">> /\ is_consistent

QueryBatches ==
    <<"Prepare", "Flush", "DescribeStatement", "Flush", "Execute", "Sync">>

\* C12: with an output descriptor that has no root position, query, query_json
\* and query_json_els hand out no row stream: they read on, passing over Data,
\* until CommandComplete or ErrorResponse, wait for ReadyForCommand, call
\* end_clean, and return NoResultExpected, or the server error after an
\* ErrorResponse; the connection is consistent after both.
C12_NoResultExpected ==
    [][\A c \in Callers :
          (ev'.caller = c /\ ev'.at = pc[c] /\ verb[c] \in StreamVerbs) =>
            /\ (pc[c] = "describe" /\ desc'[c] = "noroot")
                  => /\ pc'[c] = "pexec_loop" /\ ev'.ret = "none"
                     /\ ~qr'[c].open /\ output' = QueryBatches
            /\ qr'[c].open => desc'[c] = "root"
            /\ pc[c] \in {"pexec_loop", "pexec_ready"}
                  => (desc[c] = "noroot" /\ ~qr'[c].open /\ ev'.ret # "Ok")
            /\ (pc[c] = "pexec_loop" /\ ev'.msg \in {"CommandComplete", "ErrorResponse"})
                  => /\ pc'[c] = "pexec_ready" /\ ev'.ret = "none"
                     /\ after'[c] = IF ev'.msg = "CommandComplete"
                                    THEN "complete" ELSE "error"
            /\ (pc[c] = "pexec_loop"
                  /\ ev'.msg \in ServerMessages \ {"CommandComplete", "ErrorResponse"})
                  => (pc'[c] = "pexec_loop" /\ ev'.ret = "none" /\ seq'[c].active)
            /\ (pc[c] = "pexec_ready" /\ ev'.msg = "ReadyForCommand")
                  => /\ ev'.ret = IF after[c] = "complete"
                                  THEN "NoResultExpected" ELSE "ErrorResponse"
                     /\ is_consistent'
                     /\ seq'[c] = NoSeq]_vars

C12_Witness ==
    /\ ev.verb \in StreamVerbs /\ ev.at = "pexec_ready" /\ ev.msg = "ReadyForCommand"
    /\ ev.ret = "NoResultExpected" /\ ev.sent = QueryBatches /\ is_consistent

\* C13: when the deadline of err_sync expires before ReadyForCommand arrives
\* the verb returns ClientConnectionTimeout and not the server error, end_clean
\* is not called and the connection stays dirty; a transport failure in
\* err_sync (writing Sync, or reading) leaves the connection dirty as well.
C13_ErrSyncTimeout ==
    /\ ev.ret = "ClientConnectionTimeout"
          => /\ ev.at = "err_sync" /\ ev.msg = "none" /\ SyncOnly(ev.sent)
             /\ ~is_consistent /\ droppedUnclean
             /\ seq[ev.caller] = NoSeq /\ pc[ev.caller] = "idle"
    /\ (ev.at = "err_sync" /\ ev.ret = "ErrorResponse") => ev.msg = "ReadyForCommand"
    /\ (ev.at = "err_sync" /\ ev.msg \in ReadErrors)
          => (ev.ret = ev.msg /\ ~is_consistent /\ droppedUnclean)
    /\ (ev.at \in {"prepare", "describe"} /\ ev.msg = "ErrorResponse"
          /\ ev.ret \notin {"none", "cancelled"})
          => /\ ev.ret \in {"ClientEncoding", "ClientConnection"}
             /\ "Sync" \notin Range(ev.sent)
             /\ ~is_consistent /\ droppedUnclean

C13_Witness ==
    /\ ev.at = "err_sync" /\ ev.ret = "ClientConnectionTimeout"
    /\ ev.sent = <<"Prepare", "Flush", "DescribeStatement", "Flush", "Sync">>
    /\ dirty /\ ~SeqLive

\* C14: terminate on a consistent connection writes one Terminate on a fresh
\* Sequence; it succeeds exactly when the read that follows meets the end of
\* the stream, fails with a Protocol error when a message arrives, and returns
\* any other read error as it is; on a dirty connection it fails with
\* ClientInconsistent and writes nothing.
C14_Terminate ==
    [][\A c \in Callers :
          /\ (CallStep(c) /\ ev'.verb = "terminate") =>
                IF dirty
                THEN /\ ev'.ret = "ClientInconsistent"
                     /\ output' = output /\ ev'.sent = <<>>
                     /\ seq'[c] = NoSeq
                ELSE /\ ev'.ret = "none" /\ pc'[c] = "start"
                     /\ seq'[c] = [exists |-> TRUE, active |-> TRUE]
                     /\ output' = <<>>
          /\ StepOf(c, "terminate") =>
                /\ (pc[c] = "start" /\ ev'.ret = "none")
                      => (output' = <<"Terminate">> /\ pc'[c] = "term_read")
                /\ (pc[c] = "start" /\ ev'.ret \notin {"none", "cancelled"})
                      => (ev'.ret \in {"ClientEncoding", "ClientConnection"}
                            /\ ev'.sent = <<>>)
                /\ (pc[c] = "term_read" /\ ev'.ret # "cancelled")
                      => /\ ev'.sent = <<"Terminate">>
                         /\ ev'.ret = "Ok" <=> ev'.msg = "ClientConnectionEos"
                         /\ ev'.msg \in ServerMessages => ev'.ret = "Protocol"
                         /\ ev'.msg \in ReadErrors \ {"ClientConnectionEos"}
                               => ev'.ret = ev'.msg
                         /\ ev'.msg \in ServerMessages \cup ReadErrors
                /\ ev'.ret = "Ok" => pc[c] = "term_read"]_vars

C14_Witness ==
    /\ ev.verb = "terminate" /\ ev.at = "term_read" /\ ev.ret = "Ok"
    /\ ev.msg = "ClientConnectionEos" /\ ev.sent = <<"Terminate">>

\* The step is a pull (next) made by caller c, the holder of a row stream, or
\* the return of such a pull.
PullStep(c) == ev'.caller = c /\ ev'.verb = "next" /\ ev'.at = pc[c]

\* C15: a pull that returns the end, or the server error, leaves the stream
\* complete; a pull on a complete stream returns the end and reads nothing,
\* the stream staying as it is; a cached terminal error is returned by one pull
\* that reads nothing and leaves the stream complete with no error cached.
C15_PullIdempotent ==
    [][\A c \in Callers :
          /\ PullStep(c) =>
                /\ ev'.ret \in {"End", "ErrorResponse"}
                      => /\ qr'[c].open /\ qr'[c].complete
                         /\ qr'[c].error = "none" /\ qr'[c].buffer = 0
                /\ (pc[c] = "stream" /\ qr[c].complete)
                      => /\ ev'.ret = "End" /\ ev'.msg = "none"
                         /\ pc'[c] = "stream" /\ qr'[c] = qr[c]
                         /\ transaction_state' = transaction_state
                /\ (pc[c] = "stream" /\ qr[c].error # "none")
                      => /\ ev'.ret = qr[c].error /\ ev'.msg = "none"
                         /\ pc'[c] = "stream"
                         /\ qr'[c].complete /\ qr'[c].error = "none"
          /\ (qr[c].complete /\ qr'[c].open) => qr'[c] = qr[c]
          /\ qr[c].complete => (qr[c].error = "none" /\ qr[c].buffer = 0)]_vars

C15_Witness ==
    /\ ev.verb = "next" /\ ev.at = "stream" /\ ev.msg = "none" /\ ev.ret = "End"
    /\ qr[ev.caller].complete /\ ~SeqLive /\ is_consistent

\* C16: passive_wait does not return; once its read has completed, whatever
\* the outcome, dirty is true and stays true, and every later call of a verb
\* fails in start_sequence with ClientInconsistent.
C16_PassiveWait ==
    [][/\ \A c \in Callers :
            /\ (pc[c] = "pw_read" /\ ev'.caller = c /\ ev'.at = "pw_read"
                  /\ ev'.msg \in {"byte", "zero", "error"})
                  => (dirty' /\ passiveRead' /\ pc'[c] = "pw_pending" /\ ev'.ret = "none")
            /\ pc[c] = "pw_pending"
                  => \/ pc'[c] = "pw_pending"
                     \/ (pc'[c] = "idle" /\ ev'.caller = c /\ ev'.ret = "cancelled")
            /\ (passiveRead /\ CallStep(c))
                  => (ev'.ret = "ClientInconsistent" /\ seq'[c] = NoSeq)
       /\ ev'.verb = "passive_wait" => ev'.ret \in {"none", "cancelled"}
       /\ passiveRead => (passiveRead' /\ dirty /\ dirty')]_vars

C16_Witness ==
    /\ passiveRead /\ dirty /\ AllIdle
    /\ ev.at = "idle" /\ ev.verb \in Verbs /\ ev.ret = "ClientInconsistent"

QueryVerbs == Verbs \ {"execute", "terminate"}
IsPrefix(a, b) == Len(a) <= Len(b) /\ a = SubSeq(b, 1, Len(a))
\* What is on the wire after a batch was sent that brings it to `full`: all of
\* it, or, when write_all failed, the part of it that reached the stream.
WroteOf(ret, sent, full) ==
    IF ret = "ClientConnection" THEN IsPrefix(sent, full) /\ sent # full
                                ELSE sent = full
PrepareBatch == <<"Prepare", "Flush">>
DescribeBatches == <<"Prepare", "Flush", "DescribeStatement", "Flush">>

\* C17: a parameterised-query exchange writes Prepare, Flush, then
\* DescribeStatement, Flush once PrepareComplete was received, then Execute,
\* Sync once CommandDataDescription was received and the arguments were
\* encoded; Execute is not written when an earlier phase failed; and when
\* _query has returned the descriptor the Sequence is active, the connection
\* dirty, and nothing of the response to Execute has been read.
C17_QueryOrder ==
    [][\A c \in Callers :
          (ev'.caller = c /\ ev'.at = pc[c] /\ verb[c] \in QueryVerbs) =>
            /\ \/ IsPrefix(ev'.sent, QueryBatches)
               \/ ev'.sent \in {PrepareBatch \o <<"Sync">>, DescribeBatches \o <<"Sync">>}
            /\ output \in {<<>>, PrepareBatch, DescribeBatches, QueryBatches,
                           PrepareBatch \o <<"Sync">>, DescribeBatches \o <<"Sync">>}
            /\ ev'.sent # output =>
                 \/ /\ pc[c] = "start" /\ output = <<>>
                    /\ WroteOf(ev'.ret, ev'.sent, PrepareBatch)
                 \/ /\ pc[c] = "prepare" /\ ev'.msg = "PrepareComplete"
                    /\ output = PrepareBatch
                    /\ WroteOf(ev'.ret, ev'.sent, DescribeBatches)
                 \/ /\ pc[c] = "describe" /\ ev'.msg = "CommandDataDescription"
                    /\ output = DescribeBatches
                    /\ WroteOf(ev'.ret, ev'.sent, QueryBatches)
                 \/ /\ pc[c] \in {"prepare", "describe"} /\ ev'.msg = "ErrorResponse"
                    /\ ev'.sent = output \o <<"Sync">>
            /\ (pc[c] = "prepare" /\ ev'.msg = "PrepareComplete"
                  /\ ev'.ret = "none")
                  => (ev'.sent = DescribeBatches /\ pc'[c] = "describe")
            /\ pc[c] \in DescPcs => output = QueryBatches
            /\ (pc[c] = "describe" /\ ev'.sent = QueryBatches)
                  => /\ seq[c].active /\ dirty /\ dirty'
                     /\ seq'[c].active \/ ev'.ret = "DescriptorMismatch"
                     /\ ev'.msg = "CommandDataDescription" /\ ev'.rows = 0
                     /\ pc'[c] \in {"pexec_loop", "stream", "next_msg", "idle"}
                     /\ desc'[c] \in Descriptors \/ ev'.ret = "DescriptorMismatch"]_vars

C17_Witness ==
    /\ ev.verb \in StreamVerbs /\ ev.at = "describe" /\ ev.ret = "Ok"
    /\ ev.msg = "CommandDataDescription" /\ ev.sent = QueryBatches
    /\ seq[ev.caller].active /\ dirty /\ qr[ev.caller] = [NoStream EXCEPT !.open = TRUE]

\* C18: when encoding the arguments fails, Prepare and DescribeStatement being
\* written already, the verb returns the encoding error; neither Execute nor
\* Sync is written, end_clean is not called and is_consistent() is false.
C18_EncodeArguments ==
    (/\ ev.at = "describe" /\ ev.msg = "CommandDataDescription"
     /\ ev.ret = "ClientEncoding")
    => /\ ev.verb \in QueryVerbs
       /\ ev.sent = DescribeBatches
       /\ "Execute" \notin Range(ev.sent) /\ "Sync" \notin Range(ev.sent)
       /\ seq[ev.caller] = NoSeq /\ droppedUnclean
       /\ ~is_consistent
       /\ ~start_sequence(dirty).ok

C18_Witness ==
    /\ ev.at = "describe" /\ ev.msg = "CommandDataDescription"
    /\ ev.ret = "ClientEncoding" /\ ev.verb = "execute_args"
    /\ ev.sent = DescribeBatches /\ dirty /\ ~SeqLive

\* The batch the step of caller c hands to send_messages, should the step
\* reach a send: the first batch of the verb, DescribeStatement + Flush on
\* PrepareComplete, Execute + Sync on CommandDataDescription, Sync on an
\* ErrorResponse to Prepare or DescribeStatement; no batch otherwise.
BatchAt(c, msg) ==
    CASE pc[c] = "start" -> FirstBatch(verb[c])
      [] pc[c] = "prepare" /\ msg = "PrepareComplete" -> DescribeBatch
      [] pc[c] = "describe" /\ msg = "CommandDataDescription" -> ExecuteBatch
      [] pc[c] \in {"prepare", "describe"} /\ msg = "ErrorResponse" -> <<"Sync">>
      [] OTHER -> <<>>

\* C19: send_messages clears the scratch buffer first: a call that succeeds
\* puts on the stream the messages of its batch, in order, and nothing left
\* from an earlier batch; a call whose encoding fails returns ClientEncoding
\* with nothing of the batch on the stream; a step that only sends reads
\* nothing.
C19_SendMessages ==
    [][\A c \in Callers :
          (ev'.caller = c /\ ev'.at = pc[c] /\ ev'.ret # "cancelled"
             /\ pc[c] \notin {"idle", "stream"}) =>
            LET batch == BatchAt(c, ev'.msg)
                wrote == SubSeq(ev'.sent, Len(output) + 1, Len(ev'.sent))
            IN  /\ IsPrefix(output, ev'.sent)
                /\ IsPrefix(wrote, batch)
                /\ outbuf' = outbuf \/ IsPrefix(outbuf', batch)
                /\ batch = <<>> => (wrote = <<>> /\ outbuf' = outbuf)
                /\ batch # <<>> =>
                      /\ ev'.ret = "ClientEncoding"
                            => (wrote = <<>> /\ outbuf' # batch)
                      /\ ev'.ret = "ClientConnection"
                            => (wrote # batch /\ outbuf' = batch)
                      /\ ev'.ret = "ProtocolEncoding"
                            => (wrote = <<>> /\ outbuf' = outbuf)
                      /\ ev'.ret \notin {"ClientEncoding", "ClientConnection",
                                         "ProtocolEncoding"}
                            => (wrote = batch /\ outbuf' = batch)
                /\ pc[c] = "start"
                      => /\ ev'.msg = "none"
                         /\ transaction_state' = transaction_state
                         /\ last_ready' = last_ready]_vars

C19_Witness ==
    /\ ev.at = "prepare" /\ ev.msg = "PrepareComplete" /\ ev.ret = "ClientEncoding"
    /\ ev.sent = PrepareBatch /\ outbuf = <<"DescribeStatement">>

\* Suspension points of the verbs inside an operation of their Sequence
\* (send_messages, message, expect_ready, err_sync, _process_exec, _query).
SeqPcs ==
    {"start", "exec_loop", "exec_ready", "term_read", "prepare", "describe",
     "err_sync", "pexec_loop", "pexec_ready"}

\* C20: a verb is inside an operation of its Sequence only while the Sequence
\* is active, response is called on an active Sequence, and end_clean is
\* called at most once on a Sequence: a Sequence that was ended is left alone.
C20_ActiveAsserts ==
    /\ \A c \in Callers :
          /\ pc[c] \in SeqPcs => (seq[c].exists /\ seq[c].active)
          /\ (seq[c].exists /\ ~seq[c].active)
                => (pc[c] = "stream" /\ qr[c].complete)
    /\ end_cleans <= 1
    /\ end_cleans = 1 => (~seq[ev.caller].active /\ pc[ev.caller] \notin SeqPcs)
    /\ (ev.verb \in StreamVerbs /\ ev.at = "describe" /\ ev.ret = "Ok")
          => (seq[ev.caller].active /\ end_cleans = 0)

C20_Witness ==
    /\ ev.verb = "execute_args" /\ ev.at = "pexec_ready" /\ ev.ret = "Ok"
    /\ end_cleans = 1 /\ seq[ev.caller] = NoSeq /\ ~dirty

ExecVerbs == {"execute", "execute_args"}
\* The receive loops of execute and _process_exec, and their waits for
\* ReadyForCommand.
ExecLoops == {"exec_loop", "exec_ready", "pexec_loop", "pexec_ready"}
\* The messages that end the wait at suspension point p.
Ending(p) ==
    IF p \in {"exec_loop", "pexec_loop"} THEN {"CommandComplete", "ErrorResponse"}
                                         ELSE {"ReadyForCommand"}

\* C21: when the server answers in the end (or the stream ends or fails),
\* every call of execute and of execute_args comes to an end: it returns, or
\* its task is cancelled, or the connection is taken away by terminate.  The
\* receive loops themselves have no deadline: a message that does not end the
\* loop leaves the verb where it is, whatever their number, and nothing but a
\* read or the cancellation of the task moves the verb out of a loop.
C21_ExecuteReturns ==
    /\ \A c \in Callers :
          (verb[c] \in ExecVerbs /\ pc[c] # "idle") ~> (pc[c] = "idle" \/ ~ConnOpen)
    /\ [][\A c \in Callers :
             (verb[c] \in ExecVerbs /\ pc[c] \in ExecLoops
                /\ ev'.caller = c /\ ev'.at = pc[c]) =>
               /\ ev'.msg \in ServerMessages \ Ending(pc[c])
                     => (pc'[c] = pc[c] /\ ev'.ret = "none" /\ seq'[c].active)
               /\ ev'.msg = "none" => ev'.ret = "cancelled"]_vars

C21_Witness ==
    /\ ev.verb \in ExecVerbs /\ ev.at \in {"exec_ready", "pexec_ready"}
    /\ ev.msg = "ReadyForCommand" /\ ev.ret \in {"Ok", "ErrorResponse"}
    /\ pc[ev.caller] = "idle" /\ verb[ev.caller] = "none" /\ is_consistent

====
